---- MODULE Spec2Model ----
(***************************************************************************)
(* Proof-of-stake kernel of kpgchain (src/src/pos.cpp): the stake kernel   *)
(* hash check, the proof-of-stake validator, the stake cache, the reward   *)
(* script cache and the MPoS reward distributor.                           *)
(*                                                                         *)
(* Number representation.  TLC's integers are 32-bit signed, so            *)
(*   - a uint32_t is a record [hi, lo] of its two 16-bit halves,           *)
(*   - an arith_uint256 is a sequence of 32 bytes, least significant       *)
(*     first, and a CAmount (int64_t, non-negative) a sequence of 8 bytes. *)
(* All arithmetic on them is done limb by limb with the width of the C++   *)
(* type, so wrap-around happens where it happens in the program.           *)
(***************************************************************************)
EXTENDS Integers, Sequences, FiniteSets, TLC

VARIABLES
    op,                  \* the operation that ran last ("none" before any)
    args,                \* its arguments
    ret,                 \* its return value
    hashFn,              \* Hash(): the digest of every input the operation can hash
    hashProofOfStake,    \* uint256& hashProofOfStake of the caller
    targetProofOfStake,  \* uint256& targetProofOfStake of the caller
    chain,               \* the block index nodes from genesis to pindexPrev
    coinsView,           \* CCoinsViewCache: the unspent outputs
    spentCoins,          \* what GetSpentCoinFromMainChain finds for an outpoint
    stakeCache,          \* std::map<COutPoint, CStakeCache> of the staker
    chainActive,         \* CChain chainActive: the blocks of the active chain
    scriptsMap,          \* std::map<int, ScriptsElement> scriptsMap
    consensusParams,     \* Consensus::Params (nMPoSRewardRecipients)
    fMineBlocksOnDemand  \* Params().MineBlocksOnDemand()

callVars == <<op, args, ret, hashFn, hashProofOfStake, targetProofOfStake>>
worldVars == <<chain, coinsView, spentCoins>>
stakeVars == <<hashFn, hashProofOfStake, targetProofOfStake,
               chain, coinsView, spentCoins, stakeCache>>
mposVars == <<chainActive, scriptsMap, consensusParams, fMineBlocksOnDemand>>
vars == <<op, args, ret, hashFn, hashProofOfStake, targetProofOfStake,
          chain, coinsView, spentCoins, stakeCache,
          chainActive, scriptsMap, consensusParams, fMineBlocksOnDemand>>

(***************************************************************************)
(* Bounds of the model.                                                    *)
(***************************************************************************)
\* stake values (in base units) range over 0..MaxStakeValue
MaxStakeValue == 3
\* the chain of pindexPrev has heights 0..MaxHeight at most
MaxHeight == 2
\* COINBASE_MATURITY (consensus/consensus.h), scaled down to the model's chain
COINBASE_MATURITY == 2

(***************************************************************************)
(* uint32_t                                                                *)
(***************************************************************************)
HALF == 2 ^ 16

U32(h, l) == [hi |-> h, lo |-> l]

\* a < b on uint32_t
U32Less(a, b) == a.hi < b.hi \/ (a.hi = b.hi /\ a.lo < b.lo)

\* a + n on uint32_t (n a small non-negative int): wraps modulo 2^32
U32Add(a, n) ==
    LET l == a.lo + n
    IN  U32((a.hi + (l \div HALF)) % HALF, l % HALF)

(***************************************************************************)
(* arith_uint256 (base_uint<256>) and uint256                              *)
(***************************************************************************)
BYTE == 2 ^ 8
WIDTH == 256 \div 8

Zero256 == [i \in 1..WIDTH |-> 0]
Max256 == [i \in 1..WIDTH |-> BYTE - 1]

\* byte k (0 = least significant) of a non-negative int
ByteOf(n, k) == IF k > 3 THEN 0 ELSE (n \div (BYTE ^ k)) % BYTE

\* a CAmount given as a (small) natural number
Amount(n) == [i \in 1..8 |-> ByteOf(n, i - 1)]

\* arith_uint256::SetCompact(nCompact), nCompact given by its bit fields:
\* nSize = nCompact >> 24, nWord = nCompact & 0x007fffff (the sign bit
\* 0x00800000 is masked out and, with no pfNegative asked, ignored).
\* nSize <= 3: the word shifted right by 8*(3-nSize); otherwise the word
\* shifted left by 8*(nSize-3), bits shifted beyond bit 255 being lost.
SetCompact(nCompact) ==
    LET nSize == nCompact.nSize
        nWord == IF nSize <= 3
                 THEN nCompact.nWord \div (BYTE ^ (3 - nSize))
                 ELSE nCompact.nWord
        shift == IF nSize <= 3 THEN 0 ELSE nSize - 3
    IN  [i \in 1..WIDTH |->
            IF i - 1 - shift >= 0 THEN ByteOf(nWord, i - 1 - shift) ELSE 0]

\* sum over j = i..Min(k, Len(v)-1) of a[k-j] * v[j]  (limbs numbered from 0)
RECURSIVE Conv(_, _, _, _)
Conv(a, v, k, j) ==
    IF j > k \/ j >= Len(v) THEN 0
    ELSE a[k - j + 1] * v[j + 1] + Conv(a, v, k, j + 1)

RECURSIVE MulFrom(_, _, _, _)
MulFrom(a, v, k, carry) ==
    IF k = WIDTH THEN << >>
    ELSE LET n == carry + Conv(a, v, k, 0)
         IN  <<n % BYTE>> \o MulFrom(a, v, k + 1, n \div BYTE)

\* a *= arith_uint256(v), v the bytes of a uint64_t (base_uint::operator*=):
\* the low 256 bits of the product; the limbs of v above its 8 bytes are 0
Mul256(a, v) == MulFrom(a, v, 0, 0)

\* base_uint::CompareTo(a, b) > 0, from the most significant limb down
RECURSIVE GtFrom(_, _, _)
GtFrom(a, b, i) ==
    IF i = 0 THEN FALSE
    ELSE IF a[i] # b[i] THEN a[i] > b[i]
    ELSE GtFrom(a, b, i - 1)

Gt256(a, b) == GtFrom(a, b, WIDTH)

\* a + 1 modulo 2^256 (used to build proof hashes just above a target)
RECURSIVE IncFrom(_, _)
IncFrom(a, i) ==
    IF i > WIDTH THEN << >>
    ELSE IF a[i] = BYTE - 1 THEN <<0>> \o IncFrom(a, i + 1)
    ELSE <<a[i] + 1>> \o SubSeq(a, i + 1, WIDTH)

Inc256(a) == IncFrom(a, 1)

(***************************************************************************)
(* Hash(ss.begin(), ss.end()) over the serialized kernel: an unknown       *)
(* function of exactly the five serialized values.  hashFn holds its value *)
(* on every input the running operation can present to it.                 *)
(***************************************************************************)
KernelInput(nStakeModifier, blockFromTime, prevout, nTimeBlock) ==
    <<nStakeModifier, blockFromTime, prevout.hash, prevout.n, nTimeBlock>>

Hash(nStakeModifier, blockFromTime, prevout, nTimeBlock) ==
    hashFn[KernelInput(nStakeModifier, blockFromTime, prevout, nTimeBlock)]

(***************************************************************************)
(* CheckStakeKernelHash                                                    *)
(***************************************************************************)
\* the difficulties (nBits, by bit field) and stake values the model draws
Compact(size, word) == [nSize |-> size, nWord |-> word]

\* 0x207fffff, 0x1d00ffff, 0x01020000
NBitsVals == {Compact(32, 8388607), Compact(29, 65535), Compact(1, 131072)}

StakeValues == {Amount(n) : n \in 0..MaxStakeValue}

\* bnTarget.SetCompact(nBits); bnTarget *= arith_uint256(nValueIn).
\* TargetMemo tabulates the product on the arguments the model draws, so
\* that it is evaluated once for each; any other argument is multiplied out.
TargetMemo ==
    [nBits \in NBitsVals |-> [v \in StakeValues |-> Mul256(SetCompact(nBits), v)]]

WeightedTarget(nBits, prevoutValue) ==
    IF nBits \in NBitsVals /\ prevoutValue \in StakeValues
    THEN TargetMemo[nBits][prevoutValue]
    ELSE Mul256(SetCompact(nBits), prevoutValue)

\* mutant: the hash/target comparison is made for every staker, always
CheckStakeKernelHash_NoBypass(pindexPrev, nBits, blockFromTime, prevoutValue, prevout, nTimeBlock, hashIn, targetIn, isSuperStaker) ==
    IF U32Less(nTimeBlock, blockFromTime)
    THEN [ret |-> FALSE, hashProofOfStake |-> hashIn, targetProofOfStake |-> targetIn]
    ELSE LET bnTarget == WeightedTarget(nBits, prevoutValue)
             h == Hash(pindexPrev.nStakeModifier, blockFromTime, prevout, nTimeBlock)
         IN  [ret |-> ~Gt256(h, bnTarget),
              hashProofOfStake |-> h, targetProofOfStake |-> bnTarget]

\* mutant: a super staker skips the comparison whatever the block time
CheckStakeKernelHash_AlwaysBypass(pindexPrev, nBits, blockFromTime, prevoutValue, prevout, nTimeBlock, hashIn, targetIn, isSuperStaker) ==
    IF U32Less(nTimeBlock, blockFromTime)
    THEN [ret |-> FALSE, hashProofOfStake |-> hashIn, targetProofOfStake |-> targetIn]
    ELSE LET bnTarget == WeightedTarget(nBits, prevoutValue)
             h == Hash(pindexPrev.nStakeModifier, blockFromTime, prevout, nTimeBlock)
         IN  [ret |-> ~(~isSuperStaker /\ Gt256(h, bnTarget)),
              hashProofOfStake |-> h, targetProofOfStake |-> bnTarget]

\* mutant: no timestamp check
CheckStakeKernelHash_NoTimeCheck(pindexPrev, nBits, blockFromTime, prevoutValue, prevout, nTimeBlock, hashIn, targetIn, isSuperStaker) ==
    LET bnTarget == WeightedTarget(nBits, prevoutValue)
        h == Hash(pindexPrev.nStakeModifier, blockFromTime, prevout, nTimeBlock)
    IN  [ret |-> ~((~isSuperStaker \/ U32Less(nTimeBlock, U32Add(pindexPrev.nTime, 64)))
                   /\ Gt256(h, bnTarget)),
         hashProofOfStake |-> h, targetProofOfStake |-> bnTarget]

\* mutant: the out-parameters are cleared on the timestamp violation
CheckStakeKernelHash_ClearsOutputs(pindexPrev, nBits, blockFromTime, prevoutValue, prevout, nTimeBlock, hashIn, targetIn, isSuperStaker) ==
    IF U32Less(nTimeBlock, blockFromTime)
    THEN [ret |-> FALSE, hashProofOfStake |-> Zero256, targetProofOfStake |-> Zero256]
    ELSE LET bnTarget == WeightedTarget(nBits, prevoutValue)
             h == Hash(pindexPrev.nStakeModifier, blockFromTime, prevout, nTimeBlock)
         IN  [ret |-> ~((~isSuperStaker \/ U32Less(nTimeBlock, U32Add(pindexPrev.nTime, 64)))
                        /\ Gt256(h, bnTarget)),
              hashProofOfStake |-> h, targetProofOfStake |-> bnTarget]

\* hashIn, targetIn: what the caller's hashProofOfStake and
\* targetProofOfStake hold when the call is made (they are references).
\* mutant: a hash equal to the target is rejected
CheckStakeKernelHash_StrictLess(pindexPrev, nBits, blockFromTime, prevoutValue, prevout, nTimeBlock, hashIn, targetIn, isSuperStaker) ==
    IF U32Less(nTimeBlock, blockFromTime)
    THEN \* "nTime violation": returns before anything is computed
         [ret |-> FALSE, hashProofOfStake |-> hashIn, targetProofOfStake |-> targetIn]
    ELSE LET bnTarget == WeightedTarget(nBits, prevoutValue)
             h == Hash(pindexPrev.nStakeModifier, blockFromTime, prevout, nTimeBlock)
         IN  [ret |-> ~((~isSuperStaker \/ U32Less(nTimeBlock, U32Add(pindexPrev.nTime, 64)))
                        /\ (Gt256(h, bnTarget) \/ h = bnTarget)),
              hashProofOfStake |-> h, targetProofOfStake |-> bnTarget]

CheckStakeKernelHash(pindexPrev, nBits, blockFromTime, prevoutValue, prevout, nTimeBlock, hashIn, targetIn, isSuperStaker) ==
    IF U32Less(nTimeBlock, blockFromTime)
    THEN \* "nTime violation": returns before anything is computed
         [ret |-> FALSE, hashProofOfStake |-> hashIn, targetProofOfStake |-> targetIn]
    ELSE LET bnTarget == WeightedTarget(nBits, prevoutValue)
             h == Hash(pindexPrev.nStakeModifier, blockFromTime, prevout, nTimeBlock)
         IN  [ret |-> ~((~isSuperStaker \/ U32Less(nTimeBlock, U32Add(pindexPrev.nTime, 64)))
                        /\ Gt256(h, bnTarget)),
              hashProofOfStake |-> h, targetProofOfStake |-> bnTarget]

(***************************************************************************)
(* Specification KernelSpec: CheckStakeKernelHash as a function of its     *)
(* arguments.  Init draws the arguments, the digest of the kernel and the  *)
(* caller's out-variables; the one action makes the call.                  *)
(***************************************************************************)
\* ancestor times: an ordinary one, and one within 64 of 2^32
PrevTimes == {U32(0, 100), U32(65535, 65500)}
BlockFromTimes == {U32(0, 5), U32(0, 120), U32(65535, 65520)}
NTimeBlocks == {U32(0, 10), U32(0, 120), U32(0, 163), U32(0, 164), U32(65535, 65530)}

\* digests around the weighted targets a difficulty can give
HashValsFor ==
    [nBits \in NBitsVals |->
        {Zero256, Max256}
        \cup {WeightedTarget(nBits, v) : v \in StakeValues}
        \cup {Inc256(WeightedTarget(nBits, v)) : v \in StakeValues}]

ThePrevout == [hash |-> "tx1", n |-> 0]

KernelArgs ==
    [pindexPrev : [nTime : PrevTimes, nStakeModifier : {Zero256}],
     nBits : NBitsVals,
     blockFromTime : BlockFromTimes,
     prevoutValue : StakeValues,
     prevout : {ThePrevout},
     nTimeBlock : NTimeBlocks,
     isSuperStaker : BOOLEAN,
     hashIn : {Zero256, Max256},
     targetIn : {Zero256}]

KernelInit ==
    /\ chainActive = << >> /\ scriptsMap = << >>
    /\ consensusParams = << >> /\ fMineBlocksOnDemand = FALSE
    /\ op = "none"
    /\ args \in KernelArgs
    /\ ret = FALSE
    /\ hashFn \in [{KernelInput(args.pindexPrev.nStakeModifier, args.blockFromTime,
                                args.prevout, args.nTimeBlock)}
                   -> HashValsFor[args.nBits]]
    /\ hashProofOfStake = args.hashIn
    /\ targetProofOfStake = args.targetIn
    /\ chain = << >> /\ coinsView = << >> /\ spentCoins = << >> /\ stakeCache = << >>

CallCheckStakeKernelHash ==
    /\ UNCHANGED mposVars
    /\ op = "none"
    /\ LET r == CheckStakeKernelHash(args.pindexPrev, args.nBits, args.blockFromTime,
                                     args.prevoutValue, args.prevout, args.nTimeBlock,
                                     hashProofOfStake, targetProofOfStake,
                                     args.isSuperStaker)
       IN  /\ ret' = r.ret
           /\ hashProofOfStake' = r.hashProofOfStake
           /\ targetProofOfStake' = r.targetProofOfStake
    /\ op' = "CheckStakeKernelHash"
    /\ UNCHANGED <<args, hashFn, chain, coinsView, spentCoins, stakeCache>>

KernelNext == CallCheckStakeKernelHash

KernelSpec == KernelInit /\ [][KernelNext]_vars

(***************************************************************************)
(* Claims about CheckStakeKernelHash (checked under KernelSpec).           *)
(***************************************************************************)
KernelCalled == op = "CheckStakeKernelHash"

\* a < b + n over the integers (no wrap-around)
U32LessSum(a, b, n) ==
    LET l == b.lo + n
        h == b.hi + (l \div HALF)
    IN  a.hi < h \/ (a.hi = h /\ a.lo < l % HALF)

\* the digest and the weighted target of the call's arguments
ArgsProofHash ==
    Hash(args.pindexPrev.nStakeModifier, args.blockFromTime, args.prevout, args.nTimeBlock)
ArgsTarget == WeightedTarget(args.nBits, args.prevoutValue)

TimestampOk == ~U32Less(args.nTimeBlock, args.blockFromTime)
\* nTimeBlock < pindexPrev->nTime + 64 as the program evaluates it (uint32_t)
InWindow32 == U32Less(args.nTimeBlock, U32Add(args.pindexPrev.nTime, 64))
\* the same comparison over the integers
InWindowMath == U32LessSum(args.nTimeBlock, args.pindexPrev.nTime, 64)

C3_TimestampViolationRejects ==
    (KernelCalled /\ U32Less(args.nTimeBlock, args.blockFromTime)) => ~ret

\* a timestamp violation on a call that would otherwise have been accepted
C3_Witness ==
    /\ KernelCalled /\ U32Less(args.nTimeBlock, args.blockFromTime) /\ ~ret
    /\ args.isSuperStaker /\ ~InWindow32
    /\ ~Gt256(ArgsProofHash, ArgsTarget)

\* C8 as stated: after every rejecting call hashProofOfStake is the digest
\* of the kernel and targetProofOfStake the weighted target.
C8_AsStated ==
    (KernelCalled /\ ~ret)
        => (hashProofOfStake = ArgsProofHash /\ targetProofOfStake = ArgsTarget)

\* C8 amended: after an accepting call and after a call rejected by the
\* hash/target comparison, hashProofOfStake is the digest of the kernel and
\* targetProofOfStake the weighted target; a call rejected for the timestamp
\* violation leaves both as the caller passed them.
C8_OutputsUnlessTimestamp ==
    KernelCalled =>
        IF TimestampOk
        THEN hashProofOfStake = ArgsProofHash /\ targetProofOfStake = ArgsTarget
        ELSE hashProofOfStake = args.hashIn /\ targetProofOfStake = args.targetIn

\* a timestamp-violation rejection whose outputs are not the computed ones
C8_Witness ==
    /\ KernelCalled /\ ~ret /\ ~TimestampOk
    /\ hashProofOfStake = args.hashIn
    /\ hashProofOfStake # ArgsProofHash
    /\ targetProofOfStake # ArgsTarget

\* 2 * v of a CAmount v < 2^62
Double64(v) == SubSeq(Mul256([i \in 1..WIDTH |-> IF i <= 8 THEN v[i] ELSE 0], Amount(2)), 1, 8)

\* C10: acceptance is monotone in the stake value: a call accepted with
\* prevoutValue = v is accepted with prevoutValue = 2v, all else equal.
C10_MonotoneInStake ==
    (KernelCalled /\ ret)
        => CheckStakeKernelHash(args.pindexPrev, args.nBits, args.blockFromTime,
                                Double64(args.prevoutValue), args.prevout,
                                args.nTimeBlock, args.hashIn, args.targetIn,
                                args.isSuperStaker).ret

(***************************************************************************)
(* The chain index, the UTXO view and the super stakers                    *)
(***************************************************************************)
Null == [null |-> TRUE]

Node(h, t, m) == [nHeight |-> h, nTime |-> t, nStakeModifier |-> m]

\* pindexPrev is given by the nodes from genesis up to it
Tip(pindexPrev) == pindexPrev[Len(pindexPrev)]

\* CBlockIndex::GetAncestor(height): Null above the node or below genesis
GetAncestor(pindexPrev, height) ==
    IF height < 0 \/ height > Tip(pindexPrev).nHeight
    THEN Null
    ELSE pindexPrev[height + 1]

\* Coin: out.nValue, out.scriptPubKey, nHeight; fSpent is Coin::IsSpent()
Coin(v, script, h, spent) ==
    [nValue |-> v, scriptPubKey |-> script, nHeight |-> h, fSpent |-> spent]

IsSpent(coin) == coin.fSpent

\* static vector<CScript> superStakers: five pay-to-pubkey scripts and five
\* pay-to-pubkey-hash scripts, each named by its key or key hash
superStakers ==
    << "P2PK:0306ccf3e23ab1102cf06d736e7efe8e9b76c1448aee3c532e799007e2a7bcb5e0",
       "P2PK:0370066183f0c9600363fdc084e64cf97079b281d6f2ab258345e0f3d836b87a01",
       "P2PK:02c1721bf711a59a6eadb4edff717aaedcc0bfb82699ed9a8bbd0a93f22d391ee2",
       "P2PK:02605fc7bd9d51b0e9ae0723528e6f98b20435b3e3b8754cf9f58b00b0befb1109",
       "P2PK:0344e02fc7a6e50342676559543c9651d977d4b2826c5b7b360fd1639bb23182cb",
       "P2PKH:06156ffdfc890bfc411002385644c15b5e90a749",
       "P2PKH:7e65714e92ebc3926370f3c531db5244955a98f5",
       "P2PKH:92ab315c198e8c5e9aed36f2371c446e65aface",
       "P2PKH:e458f37672fbbb17803bae54fb8e53d000cd4234",
       "P2PKH:f3be13345a13414696ac85901a714c2071205197" >>

\* !superStakers.empty() && std::find(...) != superStakers.end()
IsSuperStaker(scriptPubKey) ==
    /\ Len(superStakers) # 0
    /\ \E i \in 1..Len(superStakers) : superStakers[i] = scriptPubKey

(***************************************************************************)
(* CheckKernel and CacheKernel                                             *)
(***************************************************************************)
EmptyCache == << >>

\* mutant: a tentative acceptance from the cached pair is trusted
CheckKernel_TrustsCache(pindexPrev, nBits, nTimeBlock, prevout, view, cache) ==
    IF view[prevout] = Null /\ spentCoins[prevout] = Null
    THEN FALSE
    ELSE LET coinPrev == IF view[prevout] # Null THEN view[prevout] ELSE spentCoins[prevout]
             isSuperStaker == IsSuperStaker(coinPrev.scriptPubKey)
         IN  IF prevout \notin DOMAIN cache
             THEN IF ~isSuperStaker /\ Tip(pindexPrev).nHeight + 1 - coinPrev.nHeight < COINBASE_MATURITY
                  THEN FALSE
                  ELSE LET blockFrom == GetAncestor(pindexPrev, coinPrev.nHeight)
                       IN  IF blockFrom = Null THEN FALSE
                           ELSE IF IsSpent(coinPrev) THEN FALSE
                           ELSE CheckStakeKernelHash(Tip(pindexPrev), nBits, blockFrom.nTime, coinPrev.nValue, prevout, nTimeBlock, Zero256, Zero256, isSuperStaker).ret
             ELSE CheckStakeKernelHash(Tip(pindexPrev), nBits, cache[prevout].blockFromTime, cache[prevout].amount, prevout, nTimeBlock, Zero256, Zero256, isSuperStaker).ret

\* The six-argument CheckKernel.  The five-argument overload calls it with
\* an empty map, which is the call made on the cache-hit path.
\* view.GetCoin finds unspent outputs only; GetSpentCoinFromMainChain is
\* asked when it finds none.
\* mutant: a cached outpoint is always rejected
CheckKernel_HitRejects(pindexPrev, nBits, nTimeBlock, prevout, view, cache) ==
    IF prevout \in DOMAIN cache
    THEN FALSE
    ELSE CheckKernel_TrustsCache(pindexPrev, nBits, nTimeBlock, prevout, view, EmptyCache)

\* mutant: a coin marked spent is not rejected
RECURSIVE CheckKernel_NoSpentCheck(_, _, _, _, _, _)
CheckKernel_NoSpentCheck(pindexPrev, nBits, nTimeBlock, prevout, view, cache) ==
    IF view[prevout] = Null /\ spentCoins[prevout] = Null
    THEN FALSE   \* "Could not find coin and it was not at the tip"
    ELSE LET coinPrev == IF view[prevout] # Null THEN view[prevout] ELSE spentCoins[prevout]
             isSuperStaker == IsSuperStaker(coinPrev.scriptPubKey)
         IN  IF prevout \notin DOMAIN cache
             THEN \* not found in cache
                  IF ~isSuperStaker /\ Tip(pindexPrev).nHeight + 1 - coinPrev.nHeight < COINBASE_MATURITY
                  THEN FALSE   \* "Coin not matured"
                  ELSE LET blockFrom == GetAncestor(pindexPrev, coinPrev.nHeight)
                       IN  IF blockFrom = Null THEN FALSE        \* "Could not find block"
                           ELSE CheckStakeKernelHash(Tip(pindexPrev), nBits, blockFrom.nTime, coinPrev.nValue, prevout, nTimeBlock, Zero256, Zero256, isSuperStaker).ret
             ELSE \* found in cache
                  IF CheckStakeKernelHash(Tip(pindexPrev), nBits, cache[prevout].blockFromTime, cache[prevout].amount, prevout, nTimeBlock, Zero256, Zero256, isSuperStaker).ret
                  THEN CheckKernel_NoSpentCheck(pindexPrev, nBits, nTimeBlock, prevout, view, EmptyCache)
                  ELSE FALSE

RECURSIVE CheckKernel(_, _, _, _, _, _)
CheckKernel(pindexPrev, nBits, nTimeBlock, prevout, view, cache) ==
    IF view[prevout] = Null /\ spentCoins[prevout] = Null
    THEN FALSE   \* "Could not find coin and it was not at the tip"
    ELSE LET coinPrev == IF view[prevout] # Null THEN view[prevout] ELSE spentCoins[prevout]
             isSuperStaker == IsSuperStaker(coinPrev.scriptPubKey)
         IN  IF prevout \notin DOMAIN cache
             THEN \* not found in cache
                  IF ~isSuperStaker /\ Tip(pindexPrev).nHeight + 1 - coinPrev.nHeight < COINBASE_MATURITY
                  THEN FALSE   \* "Coin not matured"
                  ELSE LET blockFrom == GetAncestor(pindexPrev, coinPrev.nHeight)
                       IN  IF blockFrom = Null THEN FALSE        \* "Could not find block"
                           ELSE IF IsSpent(coinPrev) THEN FALSE  \* "Coin is spent"
                           ELSE CheckStakeKernelHash(Tip(pindexPrev), nBits, blockFrom.nTime, coinPrev.nValue, prevout, nTimeBlock, Zero256, Zero256, isSuperStaker).ret
             ELSE \* found in cache
                  IF CheckStakeKernelHash(Tip(pindexPrev), nBits, cache[prevout].blockFromTime, cache[prevout].amount, prevout, nTimeBlock, Zero256, Zero256, isSuperStaker).ret
                  THEN CheckKernel(pindexPrev, nBits, nTimeBlock, prevout, view, EmptyCache)
                  ELSE FALSE

\* CStakeCache(blockFromTime, amount)
CStakeCache(t, v) == [blockFromTime |-> t, amount |-> v]

\* cache.insert({prevout, c}) for a prevout that is not a key
CacheInsert(cache, prevout, c) ==
    [p \in DOMAIN cache \cup {prevout} |-> IF p = prevout THEN c ELSE cache[p]]

\* mutant: an entry already cached is overwritten
CacheKernel_Overwrites(cache, prevout, pindexPrev, view) ==
    IF view[prevout] = Null THEN cache
    ELSE LET coinPrev == view[prevout]
         IN  IF Tip(pindexPrev).nHeight + 1 - coinPrev.nHeight < COINBASE_MATURITY
             THEN cache
             ELSE LET blockFrom == GetAncestor(pindexPrev, coinPrev.nHeight)
                  IN  IF blockFrom = Null THEN cache
                      ELSE CacheInsert(cache, prevout, CStakeCache(blockFrom.nTime, coinPrev.nValue))

\* mutant: an immature output is cached too
CacheKernel_NoMaturity(cache, prevout, pindexPrev, view) ==
    IF prevout \in DOMAIN cache THEN cache
    ELSE IF view[prevout] = Null THEN cache
    ELSE LET coinPrev == view[prevout]
             blockFrom == GetAncestor(pindexPrev, coinPrev.nHeight)
         IN  IF blockFrom = Null THEN cache
             ELSE CacheInsert(cache, prevout, CStakeCache(blockFrom.nTime, coinPrev.nValue))

\* CacheKernel: the cache it leaves
CacheKernel(cache, prevout, pindexPrev, view) ==
    IF prevout \in DOMAIN cache THEN cache          \* already in cache
    ELSE IF view[prevout] = Null THEN cache
    ELSE LET coinPrev == view[prevout]
         IN  IF Tip(pindexPrev).nHeight + 1 - coinPrev.nHeight < COINBASE_MATURITY
             THEN cache
             ELSE LET blockFrom == GetAncestor(pindexPrev, coinPrev.nHeight)
                  IN  IF blockFrom = Null THEN cache
                      ELSE CacheInsert(cache, prevout, CStakeCache(blockFrom.nTime, coinPrev.nValue))

(***************************************************************************)
(* CheckProofOfStake.  tx is given by what the function reads of it:       *)
(* IsCoinStake(), vin[0].prevout and whether VerifySignature accepts its   *)
(* input 0.  The result carries the return value, the DoS score put into   *)
(* the CValidationState (0: state.DoS was not called) and the two          *)
(* out-parameters.                                                         *)
(***************************************************************************)
PoSResult(r, dos, h, t) ==
    [ret |-> r, nDoS |-> dos, hashProofOfStake |-> h, targetProofOfStake |-> t]

\* mutant: the maturity requirement is applied to nobody
CheckProofOfStake_NoMaturity(pindexPrev, tx, nBits, nTimeBlock, hashIn, targetIn, view) ==
    IF ~tx.isCoinStake THEN PoSResult(FALSE, 0, hashIn, targetIn)
    ELSE IF view[tx.prevout] = Null THEN PoSResult(FALSE, 100, hashIn, targetIn)
    ELSE LET coinPrev == view[tx.prevout]
             isSuperStaker == IsSuperStaker(coinPrev.scriptPubKey)
             blockFrom == GetAncestor(pindexPrev, coinPrev.nHeight)
         IN  IF blockFrom = Null THEN PoSResult(FALSE, 100, hashIn, targetIn)
             ELSE IF ~tx.validSignature THEN PoSResult(FALSE, 100, hashIn, targetIn)
             ELSE LET k == CheckStakeKernelHash(Tip(pindexPrev), nBits, blockFrom.nTime, coinPrev.nValue, tx.prevout, nTimeBlock, hashIn, targetIn, isSuperStaker)
                  IN  PoSResult(k.ret, IF k.ret THEN 0 ELSE 1, k.hashProofOfStake, k.targetProofOfStake)

\* mutant: a kernel rejection is scored like every other rejection
CheckProofOfStake_FlatPenalty(pindexPrev, tx, nBits, nTimeBlock, hashIn, targetIn, view) ==
    IF ~tx.isCoinStake
    THEN PoSResult(FALSE, 0, hashIn, targetIn)        \* error(): called on non-coinstake
    ELSE IF view[tx.prevout] = Null
    THEN PoSResult(FALSE, 100, hashIn, targetIn)      \* Stake prevout does not exist
    ELSE LET coinPrev == view[tx.prevout]
             isSuperStaker == IsSuperStaker(coinPrev.scriptPubKey)
         IN  IF ~isSuperStaker /\ Tip(pindexPrev).nHeight + 1 - coinPrev.nHeight < COINBASE_MATURITY
             THEN PoSResult(FALSE, 100, hashIn, targetIn)   \* Stake prevout is not mature
             ELSE LET blockFrom == GetAncestor(pindexPrev, coinPrev.nHeight)
                  IN  IF blockFrom = Null
                      THEN PoSResult(FALSE, 100, hashIn, targetIn)   \* block can not be loaded
                      ELSE IF ~tx.validSignature
                      THEN PoSResult(FALSE, 100, hashIn, targetIn)   \* VerifySignature failed
                      ELSE LET k == CheckStakeKernelHash(Tip(pindexPrev), nBits, blockFrom.nTime, coinPrev.nValue, tx.prevout, nTimeBlock, hashIn, targetIn, isSuperStaker)
                           IN  PoSResult(k.ret, IF k.ret THEN 0 ELSE 100, k.hashProofOfStake, k.targetProofOfStake)

CheckProofOfStake(pindexPrev, tx, nBits, nTimeBlock, hashIn, targetIn, view) ==
    IF ~tx.isCoinStake
    THEN PoSResult(FALSE, 0, hashIn, targetIn)        \* error(): called on non-coinstake
    ELSE IF view[tx.prevout] = Null
    THEN PoSResult(FALSE, 100, hashIn, targetIn)      \* Stake prevout does not exist
    ELSE LET coinPrev == view[tx.prevout]
             isSuperStaker == IsSuperStaker(coinPrev.scriptPubKey)
         IN  IF ~isSuperStaker /\ Tip(pindexPrev).nHeight + 1 - coinPrev.nHeight < COINBASE_MATURITY
             THEN PoSResult(FALSE, 100, hashIn, targetIn)   \* Stake prevout is not mature
             ELSE LET blockFrom == GetAncestor(pindexPrev, coinPrev.nHeight)
                  IN  IF blockFrom = Null
                      THEN PoSResult(FALSE, 100, hashIn, targetIn)   \* block can not be loaded
                      ELSE IF ~tx.validSignature
                      THEN PoSResult(FALSE, 100, hashIn, targetIn)   \* VerifySignature failed
                      ELSE LET k == CheckStakeKernelHash(Tip(pindexPrev), nBits, blockFrom.nTime, coinPrev.nValue, tx.prevout, nTimeBlock, hashIn, targetIn, isSuperStaker)
                           IN  PoSResult(k.ret, IF k.ret THEN 0 ELSE 1, k.hashProofOfStake, k.targetProofOfStake)

(***************************************************************************)
(* Specification StakeSpec: a chain that grows and is reorganized, two     *)
(* outpoints that are confirmed and spent, and the staker's calls of       *)
(* CacheKernel and CheckKernel on them.                                    *)
(***************************************************************************)
GenesisTime == U32(0, 100)
Genesis == Node(0, GenesisTime, Zero256)

\* the times a block at height h can carry: two competing blocks at height 1
BlockTimesAt(h) == IF h = 1 THEN {U32(0, 200), U32(0, 300)} ELSE {U32(0, 400)}

P1 == [hash |-> "tx1", n |-> 0]
P2 == [hash |-> "tx2", n |-> 1]
Prevouts == {P1, P2}

OtherScript == "P2PKH:0000000000000000000000000000000000000001"
CoinScripts == {superStakers[1], OtherScript}
CoinValues == {Amount(1), Amount(2)}

StakeNBits == Compact(29, 65535)
StakeNTimeBlocks == {U32(0, 250), U32(0, 420), U32(0, 500)}
\* a digest below both weighted targets, one between them, one above both
StakeHashVals ==
    {WeightedTarget(StakeNBits, Amount(1)), WeightedTarget(StakeNBits, Amount(2)),
     Inc256(WeightedTarget(StakeNBits, Amount(2)))}

\* the coin the program reads for a prevout: the view's, else the spent one
LookupCoin(prevout) ==
    IF coinsView[prevout] # Null THEN coinsView[prevout] ELSE spentCoins[prevout]

\* the origin-block times with which an operation on prevout can hash: the
\* cached one and the one of the block at the coin's height
QueryTimes(prevout) ==
    (IF prevout \in DOMAIN stakeCache THEN {stakeCache[prevout].blockFromTime} ELSE {})
    \cup (IF LookupCoin(prevout) # Null /\ GetAncestor(chain, LookupCoin(prevout).nHeight) # Null
          THEN {GetAncestor(chain, LookupCoin(prevout).nHeight).nTime}
          ELSE {})

KernelInputs(prevout, nTimeBlock) ==
    {KernelInput(Tip(chain).nStakeModifier, t, prevout, nTimeBlock) : t \in QueryTimes(prevout)}

StakeInit ==
    /\ chainActive = << >> /\ scriptsMap = << >>
    /\ consensusParams = << >> /\ fMineBlocksOnDemand = FALSE
    /\ op = "none" /\ args = Null /\ ret = FALSE /\ hashFn = << >>
    /\ hashProofOfStake = Zero256 /\ targetProofOfStake = Zero256
    /\ chain = <<Genesis>>
    /\ coinsView = [p \in Prevouts |-> IF p = P2 THEN Coin(Amount(1), OtherScript, 0, FALSE) ELSE Null]
    /\ spentCoins = [p \in Prevouts |-> Null]
    /\ stakeCache = EmptyCache

\* the chain and the view change between calls, not during one
NoCall == op = "none" /\ UNCHANGED callVars

\* the call returns to the staker
Return ==
    /\ UNCHANGED mposVars
    /\ op # "none"
    /\ op' = "none" /\ args' = Null /\ ret' = FALSE /\ hashFn' = << >>
    /\ hashProofOfStake' = Zero256 /\ targetProofOfStake' = Zero256
    /\ UNCHANGED <<chain, coinsView, spentCoins, stakeCache>>

\* a block is connected on top of pindexPrev
ConnectBlock ==
    /\ UNCHANGED mposVars
    /\ Len(chain) <= MaxHeight
    /\ \E t \in BlockTimesAt(Len(chain)) :
          chain' = Append(chain, Node(Len(chain), t, Max256))
    /\ NoCall
    /\ UNCHANGED <<coinsView, spentCoins, stakeCache>>

\* the tip is disconnected (the first half of a reorganization)
DisconnectTip ==
    /\ UNCHANGED mposVars
    /\ Len(chain) > 1
    /\ chain' = SubSeq(chain, 1, Len(chain) - 1)
    /\ NoCall
    /\ UNCHANGED <<coinsView, spentCoins, stakeCache>>

\* the output P1 is confirmed in the tip block
AddCoin ==
    /\ UNCHANGED mposVars
    /\ coinsView[P1] = Null
    /\ Len(chain) > 1
    /\ \E v \in CoinValues, script \in CoinScripts :
          coinsView' = [coinsView EXCEPT ![P1] = Coin(v, script, Tip(chain).nHeight, FALSE)]
    /\ spentCoins' = [spentCoins EXCEPT ![P1] = Null]
    /\ NoCall
    /\ UNCHANGED <<chain, stakeCache>>

\* the output P1 is spent: it leaves the view, and the historical lookup
\* finds it (as a coin that reports spent or not) or does not find it
SpendCoin ==
    /\ UNCHANGED mposVars
    /\ coinsView[P1] # Null
    /\ coinsView' = [coinsView EXCEPT ![P1] = Null]
    /\ \E found \in BOOLEAN, spent \in BOOLEAN :
          spentCoins' = [spentCoins EXCEPT ![P1] =
                            IF found THEN [coinsView[P1] EXCEPT !.fSpent = spent] ELSE Null]
    /\ NoCall
    /\ UNCHANGED <<chain, stakeCache>>

CallCacheKernel ==
    \E prevout \in Prevouts :
        /\ op = "none"
        /\ stakeCache' = CacheKernel(stakeCache, prevout, chain, coinsView)
        /\ op' = "CacheKernel"
        /\ args' = [prevout |-> prevout, cache |-> stakeCache]
        /\ ret' = FALSE /\ hashFn' = << >>
        /\ hashProofOfStake' = Zero256 /\ targetProofOfStake' = Zero256
        /\ UNCHANGED <<chain, coinsView, spentCoins>> /\ UNCHANGED mposVars

CallCheckKernel ==
    \E prevout \in Prevouts, nTimeBlock \in StakeNTimeBlocks :
      \E h \in [KernelInputs(prevout, nTimeBlock) -> StakeHashVals] :
        /\ op = "none"
        /\ hashFn' = h
        /\ UNCHANGED <<chain, coinsView, spentCoins, stakeCache>> /\ UNCHANGED mposVars
        /\ op' = "CheckKernel"
        /\ args' = [nBits |-> StakeNBits, nTimeBlock |-> nTimeBlock, prevout |-> prevout]
        /\ ret' = CheckKernel(chain, StakeNBits, nTimeBlock, prevout, coinsView, stakeCache)'
        /\ hashProofOfStake' = Zero256 /\ targetProofOfStake' = Zero256

\* the kernel CheckProofOfStake can hash for prevout: its origin block's time
PoSKernelInputs(prevout, nTimeBlock) ==
    {KernelInput(Tip(chain).nStakeModifier, GetAncestor(chain, coinsView[prevout].nHeight).nTime, prevout, nTimeBlock) :
        x \in IF coinsView[prevout] # Null /\ GetAncestor(chain, coinsView[prevout].nHeight) # Null
              THEN {0} ELSE {}}

CallCheckProofOfStake ==
    \E prevout \in Prevouts, nTimeBlock \in StakeNTimeBlocks,
       isCoinStake \in BOOLEAN, validSignature \in BOOLEAN :
      \E h \in [PoSKernelInputs(prevout, nTimeBlock) -> StakeHashVals] :
        LET tx == [isCoinStake |-> isCoinStake, prevout |-> prevout,
                   validSignature |-> validSignature]
        IN  /\ op = "none"
            /\ hashFn' = h
            /\ UNCHANGED <<chain, coinsView, spentCoins, stakeCache>> /\ UNCHANGED mposVars
            /\ op' = "CheckProofOfStake"
            /\ args' = [tx |-> tx, nBits |-> StakeNBits, nTimeBlock |-> nTimeBlock]
            /\ LET r == CheckProofOfStake(chain, tx, StakeNBits, nTimeBlock, Zero256, Zero256, coinsView)'
               IN  /\ ret' = r
                   /\ hashProofOfStake' = r.hashProofOfStake
                   /\ targetProofOfStake' = r.targetProofOfStake

StakeNext ==
    \/ ConnectBlock
    \/ DisconnectTip
    \/ AddCoin
    \/ SpendCoin
    \/ CallCacheKernel
    \/ CallCheckKernel
    \/ Return

StakeSpec == StakeInit /\ [][StakeNext]_vars

(***************************************************************************)
(* Specification PoSSpec: the same chain and view, and the validator's     *)
(* calls of CheckProofOfStake on coinstake transactions spending P1 or P2. *)
(***************************************************************************)
PoSNext ==
    \/ ConnectBlock
    \/ DisconnectTip
    \/ AddCoin
    \/ SpendCoin
    \/ CallCheckProofOfStake
    \/ Return

PoSSpec == StakeInit /\ [][PoSNext]_vars

(***************************************************************************)
(* Claims about CheckKernel and CacheKernel (checked under StakeSpec).     *)
(***************************************************************************)
\* the cache entry of prevout does not agree with the chain and the view:
\* the block at the coin's height has another time, or the coin another value
StaleEntry(prevout) ==
    /\ prevout \in DOMAIN stakeCache
    /\ LookupCoin(prevout) # Null
    /\ GetAncestor(chain, LookupCoin(prevout).nHeight) # Null
    /\ \/ stakeCache[prevout].blockFromTime # GetAncestor(chain, LookupCoin(prevout).nHeight).nTime
       \/ stakeCache[prevout].amount # LookupCoin(prevout).nValue

\* C4: whatever the stake cache holds, a CheckKernel call that accepts with
\* the cache also accepts with an empty cache on the same ancestor,
\* difficulty, block time, outpoint and view.
C4_NoFalsePositiveFromCache ==
    (op = "CheckKernel" /\ ret)
        => CheckKernel(chain, args.nBits, args.nTimeBlock, args.prevout, coinsView, EmptyCache)

\* an accepting call on an outpoint whose cache entry is stale
C4_Witness ==
    /\ op = "CheckKernel" /\ ret
    /\ StaleEntry(args.prevout)

\* C9: CacheKernel leaves the cache as it was when the outpoint is already
\* cached, is not in the view, is immature, or has no origin block under
\* pindexPrev; otherwise it adds the one entry (time of the block at the
\* output's height, output value) and changes no other entry.  A second
\* call with the same arguments changes nothing more.
C9_CacheKernelFrame ==
    op = "CacheKernel" =>
        LET prevout == args.prevout
            before == args.cache
            coin == coinsView[prevout]
        IN  /\ IF \/ prevout \in DOMAIN before
                  \/ coin = Null
                  \/ Tip(chain).nHeight + 1 - coin.nHeight < COINBASE_MATURITY
                  \/ GetAncestor(chain, coin.nHeight) = Null
               THEN stakeCache = before
               ELSE /\ DOMAIN stakeCache = DOMAIN before \cup {prevout}
                    /\ stakeCache[prevout].blockFromTime = chain[coin.nHeight + 1].nTime
                    /\ stakeCache[prevout].amount = coin.nValue
                    /\ \A q \in DOMAIN before : stakeCache[q] = before[q]
            /\ CacheKernel(stakeCache, prevout, chain, coinsView) = stakeCache

\* an entry is added to a cache that already holds another one
C9_Witness ==
    /\ op = "CacheKernel"
    /\ args.prevout \notin DOMAIN args.cache
    /\ args.prevout \in DOMAIN stakeCache
    /\ DOMAIN args.cache # {}

(***************************************************************************)
(* Claims about CheckProofOfStake (checked under PoSSpec).                 *)
(***************************************************************************)
PoSCalled == op = "CheckProofOfStake"
PoSCoin == coinsView[args.tx.prevout]
\* pindexPrev->nHeight + 1 - coinPrev.nHeight
PoSDepth == Tip(chain).nHeight + 1 - PoSCoin.nHeight

\* C7: a coinstake whose kernel output is not a super staker's and is less
\* than COINBASE_MATURITY deep is never accepted; a super staker's output
\* is not held to the maturity requirement: with the origin block found
\* and the signature valid, its acceptance is the kernel check's alone.
C7_ImmatureRejectedUnlessSuper ==
    (PoSCalled /\ PoSCoin # Null /\ PoSDepth < COINBASE_MATURITY) =>
        IF ~IsSuperStaker(PoSCoin.scriptPubKey)
        THEN ~ret.ret
        ELSE (args.tx.isCoinStake /\ args.tx.validSignature
              /\ GetAncestor(chain, PoSCoin.nHeight) # Null)
             => (ret.ret <=>
                 CheckStakeKernelHash(Tip(chain), args.nBits, GetAncestor(chain, PoSCoin.nHeight).nTime, PoSCoin.nValue, args.tx.prevout, args.nTimeBlock, Zero256, Zero256, TRUE).ret)

\* an immature ordinary output, the coinstake otherwise in order (signed,
\* and with a proof hash within the target), is rejected
C7_Witness ==
    /\ PoSCalled /\ PoSCoin # Null /\ PoSDepth < COINBASE_MATURITY
    /\ ~IsSuperStaker(PoSCoin.scriptPubKey)
    /\ args.tx.isCoinStake /\ args.tx.validSignature
    /\ GetAncestor(chain, PoSCoin.nHeight) # Null
    /\ CheckStakeKernelHash(Tip(chain), args.nBits, GetAncestor(chain, PoSCoin.nHeight).nTime, PoSCoin.nValue, args.tx.prevout, args.nTimeBlock, Zero256, Zero256, FALSE).ret
    /\ ~ret.ret

\* an immature super staker's output is accepted
C7_SuperExempt ==
    /\ PoSCalled /\ PoSCoin # Null /\ PoSDepth < COINBASE_MATURITY
    /\ IsSuperStaker(PoSCoin.scriptPubKey)
    /\ ret.ret

(***************************************************************************)
(* The reward script cache and the MPoS reward outputs (pos.cpp:310-484).  *)
(***************************************************************************)
\* the highest block the active chain grows to
MaxActiveHeight == 3
\* the largest nMPoSRewardRecipients a chain is configured with
MaxRecipients == 3

\* uint160(): the stake address of a block whose staker could not be solved
Zero160 == "0000000000000000000000000000000000000000"
AddrA == "00000000000000000000000000000000000000aa"
\* no record in the stake index
NoStakeIndex == "none"

\* CScript() << OP_RETURN
BurnScript == <<"OP_RETURN">>
\* CScript() << OP_DUP << OP_HASH160 << ToByteVector(stakeAddress) << OP_EQUALVERIFY << OP_CHECKSIG
PubKeyHashScript(stakeAddress) ==
    <<"OP_DUP", "OP_HASH160", stakeAddress, "OP_EQUALVERIFY", "OP_CHECKSIG">>

\* a block of the active chain: its hash, its kind and the address the
\* stake index holds for its height while it is connected
Block(hash, fProofOfStake, stakeAddress) ==
    [hash |-> hash, fProofOfStake |-> fProofOfStake, stakeAddress |-> stakeAddress]

GenesisBlock == Block(<<0, "g">>, FALSE, Zero160)

\* the blocks that can be connected at a height
BlocksAt(h) ==
    {Block(<<h, "a">>, TRUE, AddrA),
     Block(<<h, "z">>, TRUE, Zero160),
     Block(<<h, "n">>, TRUE, NoStakeIndex),
     Block(<<h, "w">>, FALSE, Zero160)}

\* chainActive[nHeight]
ChainAt(nHeight) ==
    IF nHeight < 0 \/ nHeight >= Len(chainActive) THEN Null ELSE chainActive[nHeight + 1]

\* pblocktree->ReadStakeIndex(nHeight, stakeAddress)
ReadStakeIndex(nHeight) ==
    IF ChainAt(nHeight) = Null \/ ChainAt(nHeight).stakeAddress = NoStakeIndex
    THEN [ret |-> FALSE, stakeAddress |-> Zero160]
    ELSE [ret |-> TRUE, stakeAddress |-> ChainAt(nHeight).stakeAddress]

ScriptsElement(script, hash) == [script |-> script, hash |-> hash]

\* mutant: an entry at a height with no active block is erased
NeedToEraseScriptFromCache_EvictsMissing(nBlockHeight, nCacheScripts, nScriptHeight, scriptElement) ==
    \/ nScriptHeight < nBlockHeight - nCacheScripts
    \/ nScriptHeight > nBlockHeight + nCacheScripts
    \/ ChainAt(nScriptHeight) = Null
    \/ ChainAt(nScriptHeight).hash # scriptElement.hash

\* mutant: the hash is not compared
NeedToEraseScriptFromCache_WindowOnly(nBlockHeight, nCacheScripts, nScriptHeight, scriptElement) ==
    \/ nScriptHeight < nBlockHeight - nCacheScripts
    \/ nScriptHeight > nBlockHeight + nCacheScripts

NeedToEraseScriptFromCache(nBlockHeight, nCacheScripts, nScriptHeight, scriptElement) ==
    IF \/ nScriptHeight < nBlockHeight - nCacheScripts
       \/ nScriptHeight > nBlockHeight + nCacheScripts
    THEN TRUE
    ELSE LET pblockindex == ChainAt(nScriptHeight)
         IN  IF pblockindex # Null /\ pblockindex.hash # scriptElement.hash
             THEN TRUE
             ELSE FALSE

\* int nCacheScripts = consensusParams.nMPoSRewardRecipients * 1.5
CacheScripts == (consensusParams.nMPoSRewardRecipients * 3) \div 2

\* mutant: nothing is erased
CleanScriptCache_KeepsAll(map, nHeight) ==
    map

CleanScriptCache(map, nHeight) ==
    LET kept == {h \in DOMAIN map : ~NeedToEraseScriptFromCache(nHeight, CacheScripts, h, map[h])}
    IN  [h \in kept |-> map[h]]

\* mutant: the entry at the height is served whatever block it was stored for
ReadFromScriptCache_TrustsHeight(map, pblockindex, nHeight) ==
    IF nHeight \in DOMAIN map
    THEN [ret |-> TRUE, script |-> map[nHeight].script, scriptsMap |-> map]
    ELSE [ret |-> FALSE, script |-> << >>, scriptsMap |-> map]

ReadFromScriptCache(map, pblockindex, nHeight) ==
    LET cleaned == CleanScriptCache(map, nHeight)
    IN  IF nHeight \in DOMAIN cleaned /\ cleaned[nHeight].hash = pblockindex.hash
        THEN [ret |-> TRUE, script |-> cleaned[nHeight].script, scriptsMap |-> cleaned]
        ELSE [ret |-> FALSE, script |-> << >>, scriptsMap |-> cleaned]

\* std::map::insert leaves an element that is already there
AddToScriptCache(map, script, pblockindex, nHeight) ==
    LET cleaned == CleanScriptCache(map, nHeight)
    IN  IF nHeight \in DOMAIN cleaned
        THEN cleaned
        ELSE [h \in DOMAIN cleaned \cup {nHeight} |->
                IF h = nHeight THEN ScriptsElement(script, pblockindex.hash) ELSE cleaned[h]]

MPoSResult(r, list, map) == [ret |-> r, mposScriptList |-> list, scriptsMap |-> map]

\* mutant: the all-zero address is a failure
AddMPoSScript_NoBurn(mposScriptList, map, nHeight) ==
    LET pblockindex == ChainAt(nHeight)
    IN  IF pblockindex = Null
        THEN MPoSResult(FALSE, mposScriptList, map)
        ELSE
    LET cached == ReadFromScriptCache(map, pblockindex, nHeight)
    IN  IF cached.ret
        THEN MPoSResult(TRUE, Append(mposScriptList, cached.script), cached.scriptsMap)
        ELSE
    LET index == ReadStakeIndex(nHeight)
    IN  IF ~index.ret
        THEN MPoSResult(FALSE, mposScriptList, cached.scriptsMap)
        ELSE
        IF pblockindex.fProofOfStake
        THEN IF index.stakeAddress = Zero160
             THEN MPoSResult(FALSE, mposScriptList, cached.scriptsMap)
             ELSE MPoSResult(TRUE, Append(mposScriptList, PubKeyHashScript(index.stakeAddress)),
                             AddToScriptCache(cached.scriptsMap, PubKeyHashScript(index.stakeAddress), pblockindex, nHeight))
        ELSE IF fMineBlocksOnDemand
             THEN MPoSResult(TRUE, Append(mposScriptList, BurnScript), cached.scriptsMap)
             ELSE MPoSResult(FALSE, mposScriptList, cached.scriptsMap)

\* mutant: a resolution is not written to the cache
AddMPoSScript_NoWriteBack(mposScriptList, map, nHeight) ==
    LET pblockindex == ChainAt(nHeight)
    IN  IF pblockindex = Null
        THEN MPoSResult(FALSE, mposScriptList, map)
        ELSE
    LET cached == ReadFromScriptCache(map, pblockindex, nHeight)
    IN  IF cached.ret
        THEN MPoSResult(TRUE, Append(mposScriptList, cached.script), cached.scriptsMap)
        ELSE
    LET index == ReadStakeIndex(nHeight)
    IN  IF ~index.ret
        THEN MPoSResult(FALSE, mposScriptList, cached.scriptsMap)
        ELSE
        IF pblockindex.fProofOfStake
        THEN LET script == IF index.stakeAddress = Zero160
                           THEN BurnScript
                           ELSE PubKeyHashScript(index.stakeAddress)
             IN  MPoSResult(TRUE, Append(mposScriptList, script),
                            cached.scriptsMap)
        ELSE IF fMineBlocksOnDemand
             THEN MPoSResult(TRUE, Append(mposScriptList, BurnScript), cached.scriptsMap)
             ELSE MPoSResult(FALSE, mposScriptList, cached.scriptsMap)

AddMPoSScript(mposScriptList, map, nHeight) ==
    LET pblockindex == ChainAt(nHeight)
    IN  IF pblockindex = Null
        THEN MPoSResult(FALSE, mposScriptList, map)
        ELSE
    LET cached == ReadFromScriptCache(map, pblockindex, nHeight)
    IN  IF cached.ret
        THEN MPoSResult(TRUE, Append(mposScriptList, cached.script), cached.scriptsMap)
        ELSE
    LET index == ReadStakeIndex(nHeight)
    IN  IF ~index.ret
        THEN MPoSResult(FALSE, mposScriptList, cached.scriptsMap)
        ELSE
        IF pblockindex.fProofOfStake
        THEN LET script == IF index.stakeAddress = Zero160
                           THEN BurnScript
                           ELSE PubKeyHashScript(index.stakeAddress)
             IN  MPoSResult(TRUE, Append(mposScriptList, script),
                            AddToScriptCache(cached.scriptsMap, script, pblockindex, nHeight))
        ELSE IF fMineBlocksOnDemand
             THEN MPoSResult(TRUE, Append(mposScriptList, BurnScript), cached.scriptsMap)
             ELSE MPoSResult(FALSE, mposScriptList, cached.scriptsMap)

\* for(int i = 0; (i < nMPoSRewardRecipients - 1) && ret; i++)
\*     ret &= AddMPoSScript(mposScriptList, nHeight - i, consensusParams);
RECURSIVE MPoSLoop(_, _, _, _)
MPoSLoop(mposScriptList, map, nHeight, i) ==
    IF i < consensusParams.nMPoSRewardRecipients - 1
    THEN LET r == AddMPoSScript(mposScriptList, map, nHeight - i)
         IN  IF r.ret
             THEN MPoSLoop(r.mposScriptList, r.scriptsMap, nHeight, i + 1)
             ELSE r
    ELSE MPoSResult(TRUE, mposScriptList, map)

\* mutant: the recipients are resolved in ascending heights
RECURSIVE MPoSLoopAscending(_, _, _, _)
MPoSLoopAscending(mposScriptList, map, nHeight, i) ==
    IF i < consensusParams.nMPoSRewardRecipients - 1
    THEN LET r == AddMPoSScript(mposScriptList, map, nHeight + i)
         IN  IF r.ret
             THEN MPoSLoopAscending(r.mposScriptList, r.scriptsMap, nHeight, i + 1)
             ELSE r
    ELSE MPoSResult(TRUE, mposScriptList, map)

GetMPoSOutputScripts_Ascending(mposScriptList, map, nHeight) ==
    MPoSLoopAscending(mposScriptList, map, nHeight - COINBASE_MATURITY - (consensusParams.nMPoSRewardRecipients - 2), 0)

\* mutant: the loop goes on after a failure (ret &= ... without "&& ret")
RECURSIVE MPoSLoopKeepsGoing(_, _, _, _, _)
MPoSLoopKeepsGoing(mposScriptList, map, nHeight, i, ok) ==
    IF i < consensusParams.nMPoSRewardRecipients - 1
    THEN LET r == AddMPoSScript(mposScriptList, map, nHeight - i)
         IN  MPoSLoopKeepsGoing(r.mposScriptList, r.scriptsMap, nHeight, i + 1, ok /\ r.ret)
    ELSE MPoSResult(ok, mposScriptList, map)

GetMPoSOutputScripts_KeepsGoing(mposScriptList, map, nHeight) ==
    MPoSLoopKeepsGoing(mposScriptList, map, nHeight - COINBASE_MATURITY, 0, TRUE)

GetMPoSOutputScripts(mposScriptList, map, nHeight) ==
    MPoSLoop(mposScriptList, map, nHeight - COINBASE_MATURITY, 0)

CTxOut(nValue, scriptPubKey) == [nValue |-> nValue, scriptPubKey |-> scriptPubKey]

\* mutant: one output more than recipients
CreateMPoSOutputs_OneTooMany(vout, map, nRewardPiece, nHeight) ==
    LET r == GetMPoSOutputScripts(<< >>, map, nHeight)
    IN  IF ~r.ret
        THEN [ret |-> FALSE, vout |-> vout, scriptsMap |-> r.scriptsMap]
        ELSE [ret |-> TRUE,
              vout |-> vout \o [i \in 1..Len(r.mposScriptList) + 1 |-> CTxOut(nRewardPiece, BurnScript)],
              scriptsMap |-> r.scriptsMap]

\* mutant: the recipients resolved before a failure are paid
CreateMPoSOutputs_AppendsPartial(vout, map, nRewardPiece, nHeight) ==
    LET r == GetMPoSOutputScripts(<< >>, map, nHeight)
    IN  [ret |-> r.ret,
         vout |-> vout \o [i \in 1..Len(r.mposScriptList) |->
                             CTxOut(nRewardPiece, r.mposScriptList[i])],
         scriptsMap |-> r.scriptsMap]

CreateMPoSOutputs(vout, map, nRewardPiece, nHeight) ==
    LET r == GetMPoSOutputScripts(<< >>, map, nHeight)
    IN  IF ~r.ret
        THEN [ret |-> FALSE, vout |-> vout, scriptsMap |-> r.scriptsMap]
        ELSE [ret |-> TRUE,
              vout |-> vout \o [i \in 1..Len(r.mposScriptList) |->
                                  CTxOut(nRewardPiece, r.mposScriptList[i])],
              scriptsMap |-> r.scriptsMap]

(***************************************************************************)
(* MPoSSpec: the active chain grows and reorganizes, and the staker builds *)
(* the reward outputs of a coinstake.                                      *)
(***************************************************************************)
\* the outputs of the coinstake before the reward is split: none, or the
\* empty first output and the stake output
StakeOutScript == PubKeyHashScript("00000000000000000000000000000000000000bb")
TxOuts == {<< >>, <<CTxOut(0, << >>), CTxOut(9, StakeOutScript)>>}
RewardPieces == {1, 2}

MPoSInit ==
    /\ op = "none" /\ args = Null /\ ret = FALSE /\ hashFn = << >>
    /\ hashProofOfStake = Zero256 /\ targetProofOfStake = Zero256
    /\ chain = << >> /\ coinsView = << >> /\ spentCoins = << >> /\ stakeCache = << >>
    /\ chainActive = <<GenesisBlock>>
    /\ scriptsMap = << >>
    /\ consensusParams \in [nMPoSRewardRecipients : 1..MaxRecipients]
    /\ fMineBlocksOnDemand \in BOOLEAN

\* chainActive.SetTip: a block is connected
ConnectTip ==
    /\ NoCall
    /\ Len(chainActive) <= MaxActiveHeight
    /\ \E b \in BlocksAt(Len(chainActive)) : chainActive' = Append(chainActive, b)
    /\ UNCHANGED <<chain, coinsView, spentCoins, stakeCache>>
    /\ UNCHANGED <<scriptsMap, consensusParams, fMineBlocksOnDemand>>

\* chainActive.SetTip: the tip is disconnected
DisconnectActiveTip ==
    /\ NoCall
    /\ Len(chainActive) > 1
    /\ chainActive' = SubSeq(chainActive, 1, Len(chainActive) - 1)
    /\ UNCHANGED <<chain, coinsView, spentCoins, stakeCache>>
    /\ UNCHANGED <<scriptsMap, consensusParams, fMineBlocksOnDemand>>

CallCreateMPoSOutputs ==
    \E vout \in TxOuts, nRewardPiece \in RewardPieces, nHeight \in 0..Len(chainActive) :
        LET r == CreateMPoSOutputs(vout, scriptsMap, nRewardPiece, nHeight)
        IN  /\ op = "none"
            /\ op' = "CreateMPoSOutputs"
            /\ args' = [txNew |-> vout, nRewardPiece |-> nRewardPiece, nHeight |-> nHeight,
                        scriptsMap |-> scriptsMap]
            /\ ret' = [ret |-> r.ret, txNew |-> r.vout]
            /\ scriptsMap' = r.scriptsMap
            /\ UNCHANGED <<chainActive, consensusParams, fMineBlocksOnDemand>>
            /\ UNCHANGED stakeVars

MPoSNext ==
    \/ ConnectTip
    \/ DisconnectActiveTip
    \/ CallCreateMPoSOutputs
    \/ Return

MPoSSpec == MPoSInit /\ [][MPoSNext]_vars

(***************************************************************************)
(* EraseSpec: NeedToEraseScriptFromCache on its own, against every active  *)
(* chain.                                                                  *)
(***************************************************************************)
CallNeedToEraseScriptFromCache ==
    \E nBlockHeight \in 0..MaxActiveHeight + 1, n \in 1..MaxRecipients,
       nScriptHeight \in 0..MaxActiveHeight + 1 :
      \E b \in BlocksAt(nScriptHeight) :
        LET scriptElement == ScriptsElement(BurnScript, b.hash)
            nCacheScripts == (n * 3) \div 2
        IN  /\ op = "none"
            /\ op' = "NeedToEraseScriptFromCache"
            /\ args' = [nBlockHeight |-> nBlockHeight, nCacheScripts |-> nCacheScripts,
                        nScriptHeight |-> nScriptHeight, scriptElement |-> scriptElement]
            /\ ret' = NeedToEraseScriptFromCache(nBlockHeight, nCacheScripts, nScriptHeight, scriptElement)
            /\ UNCHANGED mposVars
            /\ UNCHANGED stakeVars

EraseNext ==
    \/ ConnectTip
    \/ DisconnectActiveTip
    \/ CallNeedToEraseScriptFromCache
    \/ Return

EraseSpec == MPoSInit /\ [][EraseNext]_vars

(***************************************************************************)
(* Claims about NeedToEraseScriptFromCache (checked under EraseSpec).      *)
(***************************************************************************)
EraseCalled == op = "NeedToEraseScriptFromCache"
\* nScriptHeight lies strictly outside [H - W, H + W]
OutsideWindow ==
    \/ args.nScriptHeight < args.nBlockHeight - args.nCacheScripts
    \/ args.nScriptHeight > args.nBlockHeight + args.nCacheScripts
\* the active chain has a block at the entry's height
HasActiveBlock == args.nScriptHeight >= 0 /\ args.nScriptHeight < Len(chainActive)
\* the entry's stored hash is the hash of the active block at its height
MatchesActiveChain ==
    HasActiveBlock /\ chainActive[args.nScriptHeight + 1].hash = args.scriptElement.hash

\* C5 as stated: the entry is erased if and only if it is outside the
\* window or its stored hash does not match the active chain at its
\* height, an entry at a height with no active block counting as one that
\* no longer matches.
C5_AsStated ==
    EraseCalled => (ret <=> (OutsideWindow \/ ~MatchesActiveChain))

\* C5: NeedToEraseScriptFromCache returns true if and only if the entry's
\* height is below H - W, or above H + W, or the active chain has a block
\* at that height whose hash differs from the stored hash; an in-window
\* entry at a height where the active chain has no block is kept.
C5_EraseIffOutsideOrDifferentBlock ==
    EraseCalled =>
        (ret <=> (OutsideWindow
                  \/ (HasActiveBlock
                      /\ chainActive[args.nScriptHeight + 1].hash # args.scriptElement.hash)))

\* an in-window entry above the tip is kept
C5_Witness ==
    /\ EraseCalled
    /\ ~OutsideWindow
    /\ ~HasActiveBlock
    /\ ~ret

(***************************************************************************)
(* Claims about CreateMPoSOutputs (checked under MPoSSpec).                *)
(***************************************************************************)
\* the script of the reward recipient of the block at a height of the
\* active chain, read from the block and the stake index alone
RecipientAt(nHeight) ==
    LET b == chainActive[nHeight + 1]
    IN  IF b.fProofOfStake /\ b.stakeAddress # Zero160
        THEN PubKeyHashScript(b.stakeAddress)
        ELSE BurnScript

\* C6: a successful CreateMPoSOutputs call at height H with N recipients
\* appends N - 1 outputs after the outputs the transaction had, which stay
\* as they were; each appended output carries nRewardPiece, and the i-th
\* (i = 0..N-2) pays the recipient of height H - COINBASE_MATURITY - i.
C6_AppendsRecipientsDescending ==
    (op = "CreateMPoSOutputs" /\ ret.ret) =>
        LET N == consensusParams.nMPoSRewardRecipients
            before == args.txNew
            after == ret.txNew
        IN  /\ Len(after) = Len(before) + N - 1
            /\ SubSeq(after, 1, Len(before)) = before
            /\ \A i \in 0..N - 2 :
                  /\ after[Len(before) + 1 + i].nValue = args.nRewardPiece
                  /\ args.nHeight - COINBASE_MATURITY - i \in 0..Len(chainActive) - 1
                  /\ after[Len(before) + 1 + i].scriptPubKey
                        = RecipientAt(args.nHeight - COINBASE_MATURITY - i)

\* a successful call that appends two outputs with different recipients to
\* a transaction that had outputs, the first of them served from the cache
C6_Witness ==
    /\ op = "CreateMPoSOutputs" /\ ret.ret
    /\ consensusParams.nMPoSRewardRecipients = 3
    /\ Len(args.txNew) > 0
    /\ Len(ret.txNew) = Len(args.txNew) + 2
    /\ ret.txNew[Len(args.txNew) + 1].scriptPubKey # ret.txNew[Len(args.txNew) + 2].scriptPubKey
    /\ args.nHeight - COINBASE_MATURITY \in DOMAIN args.scriptsMap
    /\ args.scriptsMap[args.nHeight - COINBASE_MATURITY].hash
          = chainActive[args.nHeight - COINBASE_MATURITY + 1].hash

\* a cache entry of another block than the active one at its height is
\* dropped and the recipient resolved again
C6_StaleEntryReplaced ==
    /\ op = "CreateMPoSOutputs" /\ ret.ret
    /\ args.nHeight - COINBASE_MATURITY \in DOMAIN args.scriptsMap
    /\ args.scriptsMap[args.nHeight - COINBASE_MATURITY].hash
          # chainActive[args.nHeight - COINBASE_MATURITY + 1].hash
    /\ consensusParams.nMPoSRewardRecipients > 1

(***************************************************************************)
(* ScriptSpec: the recipients are resolved one height at a time            *)
(* (AddMPoSScript) and for a whole reward (GetMPoSOutputScripts) while the *)
(* active chain grows and reorganizes.                                     *)
(***************************************************************************)
\* the recipient list the caller has collected so far
ScriptLists == {<< >>, <<StakeOutScript>>}

CallAddMPoSScript ==
    \E mposScriptList \in ScriptLists, nHeight \in (0 - 1)..Len(chainActive) :
        LET r == AddMPoSScript(mposScriptList, scriptsMap, nHeight)
        IN  /\ op = "none"
            /\ op' = "AddMPoSScript"
            /\ args' = [mposScriptList |-> mposScriptList, nHeight |-> nHeight,
                        scriptsMap |-> scriptsMap]
            /\ ret' = [ret |-> r.ret, mposScriptList |-> r.mposScriptList]
            /\ scriptsMap' = r.scriptsMap
            /\ UNCHANGED <<chainActive, consensusParams, fMineBlocksOnDemand>>
            /\ UNCHANGED stakeVars

CallGetMPoSOutputScripts ==
    \E nHeight \in 0..Len(chainActive) + COINBASE_MATURITY :
        LET r == GetMPoSOutputScripts(<< >>, scriptsMap, nHeight)
        IN  /\ op = "none"
            /\ op' = "GetMPoSOutputScripts"
            /\ args' = [mposScriptList |-> << >>, nHeight |-> nHeight,
                        scriptsMap |-> scriptsMap]
            /\ ret' = [ret |-> r.ret, mposScriptList |-> r.mposScriptList]
            /\ scriptsMap' = r.scriptsMap
            /\ UNCHANGED <<chainActive, consensusParams, fMineBlocksOnDemand>>
            /\ UNCHANGED stakeVars

ScriptNext ==
    \/ ConnectTip
    \/ DisconnectActiveTip
    \/ CallAddMPoSScript
    \/ CallGetMPoSOutputScripts
    \/ Return

ScriptSpec == MPoSInit /\ [][ScriptNext]_vars

(***************************************************************************)
(* Claims about AddMPoSScript and the reward script cache (ScriptSpec).    *)
(***************************************************************************)
AddCalled == op = "AddMPoSScript"
\* the active block at the height the call resolves
AddBlock == ChainAt(args.nHeight)
\* the cache the call started with holds an entry stored for that block
AddHit ==
    /\ args.nHeight \in DOMAIN args.scriptsMap
    /\ args.scriptsMap[args.nHeight].hash = AddBlock.hash
\* the call appended one script to the list and left the rest
AddAppended ==
    /\ Len(ret.mposScriptList) = Len(args.mposScriptList) + 1
    /\ SubSeq(ret.mposScriptList, 1, Len(args.mposScriptList)) = args.mposScriptList
AddLast == ret.mposScriptList[Len(ret.mposScriptList)]

\* C11 as stated: at a height with a proof-of-stake block AddMPoSScript
\* succeeds, with a burn script when the stake index has no record or the
\* all-zero address.
C11_AsStated ==
    (AddCalled /\ AddBlock # Null /\ AddBlock.fProofOfStake) =>
        /\ ret.ret
        /\ AddAppended
        /\ (~AddHit /\ AddBlock.stakeAddress \in {Zero160, NoStakeIndex}) => AddLast = BurnScript

\* C11: at a height with a proof-of-stake block AddMPoSScript succeeds when
\* the cache holds an entry for the block or the stake index has a record
\* for the height, an all-zero address resolving to a burn script; when the
\* index has no record (and the cache no entry) it returns false and
\* appends nothing.
C11_BurnOnZeroFailOnAbsent ==
    (AddCalled /\ AddBlock # Null /\ AddBlock.fProofOfStake) =>
        IF AddHit \/ AddBlock.stakeAddress # NoStakeIndex
        THEN /\ ret.ret
             /\ AddAppended
             /\ (~AddHit /\ AddBlock.stakeAddress = Zero160) => AddLast = BurnScript
        ELSE /\ ~ret.ret
             /\ ret.mposScriptList = args.mposScriptList

\* an all-zero address, not cached, resolves to a burn script
C11_Witness ==
    /\ AddCalled /\ AddBlock # Null /\ AddBlock.fProofOfStake
    /\ ~AddHit /\ AddBlock.stakeAddress = Zero160
    /\ ret.ret /\ AddLast = BurnScript

\* C12 as stated: after every successful AddMPoSScript the cache holds an
\* entry at the height with the appended script and the active block's hash.
C12_AsStated ==
    (AddCalled /\ ret.ret) =>
        /\ args.nHeight \in DOMAIN scriptsMap
        /\ scriptsMap[args.nHeight].script = AddLast
        /\ scriptsMap[args.nHeight].hash = AddBlock.hash

\* C12: after a successful AddMPoSScript at the height of a proof-of-stake
\* block the cache holds an entry there with the appended script and the
\* active block's hash (burn scripts of an all-zero address included); the
\* burn script appended for a block that is not proof-of-stake, when blocks
\* are mined on demand, is not written to the cache.
C12_WrittenBackIfProofOfStake ==
    (AddCalled /\ ret.ret) =>
        IF AddBlock.fProofOfStake
        THEN /\ args.nHeight \in DOMAIN scriptsMap
             /\ scriptsMap[args.nHeight].script = AddLast
             /\ scriptsMap[args.nHeight].hash = AddBlock.hash
        ELSE /\ AddLast = BurnScript
             /\ args.nHeight \notin DOMAIN scriptsMap

\* a burn script resolved from an all-zero address is written to the cache
C12_Witness ==
    /\ AddCalled /\ ret.ret
    /\ AddBlock.fProofOfStake /\ AddBlock.stakeAddress = Zero160
    /\ args.nHeight \notin DOMAIN args.scriptsMap
    /\ args.nHeight \in DOMAIN scriptsMap
    /\ scriptsMap[args.nHeight].script = BurnScript

\* the script resolved for a block from the stake index
ScriptOfBlock(b) ==
    IF b.stakeAddress = Zero160 THEN BurnScript ELSE PubKeyHashScript(b.stakeAddress)

\* C13: every cache entry holds the script of the block whose hash it
\* stores; a successful AddMPoSScript appends the recipient of the block
\* that is active at the height, and an entry stored for a block that has
\* been replaced at the height is not in the cache after the call; a
\* successful GetMPoSOutputScripts lists the recipients of the active
\* blocks.
C13_ServedScriptIsOfActiveBlock ==
    /\ \A h \in DOMAIN scriptsMap :
          \E b \in BlocksAt(h) :
              /\ b.hash = scriptsMap[h].hash /\ b.fProofOfStake
              /\ scriptsMap[h].script = ScriptOfBlock(b)
    /\ (AddCalled /\ ret.ret) => AddLast = RecipientAt(args.nHeight)
    /\ (AddCalled /\ AddBlock # Null /\ args.nHeight \in DOMAIN scriptsMap)
          => scriptsMap[args.nHeight].hash = AddBlock.hash
    /\ (op = "GetMPoSOutputScripts" /\ ret.ret) =>
          \A i \in 1..Len(ret.mposScriptList) :
              ret.mposScriptList[i] = RecipientAt(args.nHeight - COINBASE_MATURITY - (i - 1))

\* the cache held the script of a replaced block; the call resolves the
\* recipient of the active block, another script
C13_Witness ==
    /\ AddCalled /\ ret.ret
    /\ args.nHeight \in DOMAIN args.scriptsMap
    /\ args.scriptsMap[args.nHeight].hash # AddBlock.hash
    /\ args.scriptsMap[args.nHeight].script # AddLast
    /\ AddLast = RecipientAt(args.nHeight)

(***************************************************************************)
(* CacheSizeSpec: GetMPoSOutputScripts at arbitrary heights of a longer    *)
(* chain of proof-of-stake blocks that grows and reorganizes.              *)
(***************************************************************************)
\* the highest block of this longer chain
MaxCacheHeight == 5

\* the proof-of-stake blocks with a stake index record
StakeBlocksAt(h) ==
    {b \in BlocksAt(h) : b.fProofOfStake /\ b.stakeAddress # NoStakeIndex}

\* chainActive.SetTip: a proof-of-stake block is connected
ConnectStakeTip ==
    /\ NoCall
    /\ Len(chainActive) <= MaxCacheHeight
    /\ \E b \in StakeBlocksAt(Len(chainActive)) : chainActive' = Append(chainActive, b)
    /\ UNCHANGED <<chain, coinsView, spentCoins, stakeCache>>
    /\ UNCHANGED <<scriptsMap, consensusParams, fMineBlocksOnDemand>>

CacheSizeNext ==
    \/ ConnectStakeTip
    \/ DisconnectActiveTip
    \/ CallGetMPoSOutputScripts
    \/ Return

CacheSizeSpec == MPoSInit /\ [][CacheSizeNext]_vars

\* C14: the reward script cache never holds more than
\* 2 * nCacheScripts - nMPoSRewardRecipients entries.
C14_CacheSizeBounded ==
    Cardinality(DOMAIN scriptsMap) <= 2 * CacheScripts - consensusParams.nMPoSRewardRecipients

\* the cache is as large as the bound allows after a call
C14_Witness ==
    /\ op = "GetMPoSOutputScripts"
    /\ consensusParams.nMPoSRewardRecipients > 1
    /\ Cardinality(DOMAIN scriptsMap) = 2 * CacheScripts - consensusParams.nMPoSRewardRecipients
    /\ Cardinality(DOMAIN args.scriptsMap) < Cardinality(DOMAIN scriptsMap)

(***************************************************************************)
(* Further claims about CheckKernel (checked under StakeSpec).             *)
(***************************************************************************)
\* CheckKernel was called with no cache entry for an output that is not in
\* the view
MissOnSpent ==
    /\ op = "CheckKernel"
    /\ args.prevout \notin DOMAIN stakeCache
    /\ coinsView[args.prevout] = Null

\* C15 as stated: on a cache miss CheckKernel rejects every output that is
\* not unspent in the view, whatever GetSpentCoinFromMainChain returns.
C15_AsStated ==
    MissOnSpent => ~ret

\* C15: on a cache miss CheckKernel rejects an output that is not in the
\* view when GetSpentCoinFromMainChain does not find it or returns a coin
\* that is marked spent; when the lookup returns the coin as it was before
\* it was spent, the result is that of the maturity, ancestor and kernel
\* hash checks on that coin.
C15_SpentRejectedUnlessRecovered ==
    MissOnSpent =>
        LET coinPrev == spentCoins[args.prevout]
        IN  IF coinPrev = Null \/ coinPrev.fSpent
            THEN ~ret
            ELSE ret <=>
                 /\ (IsSuperStaker(coinPrev.scriptPubKey)
                     \/ Tip(chain).nHeight + 1 - coinPrev.nHeight >= COINBASE_MATURITY)
                 /\ GetAncestor(chain, coinPrev.nHeight) # Null
                 /\ CheckStakeKernelHash(Tip(chain), args.nBits, GetAncestor(chain, coinPrev.nHeight).nTime, coinPrev.nValue, args.prevout, args.nTimeBlock, Zero256, Zero256, IsSuperStaker(coinPrev.scriptPubKey)).ret

\* the lookup returns a coin marked spent that passes every other check,
\* and the call rejects
C15_Witness ==
    /\ MissOnSpent
    /\ spentCoins[args.prevout] # Null
    /\ spentCoins[args.prevout].fSpent
    /\ Tip(chain).nHeight + 1 - spentCoins[args.prevout].nHeight >= COINBASE_MATURITY
    /\ GetAncestor(chain, spentCoins[args.prevout].nHeight) # Null
    /\ CheckStakeKernelHash(Tip(chain), args.nBits, GetAncestor(chain, spentCoins[args.prevout].nHeight).nTime, spentCoins[args.prevout].nValue, args.prevout, args.nTimeBlock, Zero256, Zero256, FALSE).ret
    /\ ~ret

(***************************************************************************)
(* The ownership checks of a proof-of-stake block (pos.cpp:158-237).       *)
(* A script is a record of its solved type and its data; a public key is   *)
(* a key and the form it is serialized in, and its CKeyID is the hash of   *)
(* the serialization.                                                      *)
(***************************************************************************)
CPubKey(key, compressed, valid) == [key |-> key, compressed |-> compressed, valid |-> valid]
\* CPubKey::GetID
GetID(pubkey) == [key |-> pubkey.key, compressed |-> pubkey.compressed]

PubKeys == {CPubKey(k, c, TRUE) : k \in {"k1", "k2"}, c \in BOOLEAN}
InvalidPubKey == CPubKey("k1", TRUE, FALSE)

TxScript(type, data) == [type |-> type, data |-> data]
PayToPubKey(pubkey) == TxScript("TX_PUBKEY", pubkey)
PayToPubKeyHash(keyID) == TxScript("TX_PUBKEYHASH", keyID)

\* the scripts of the stake output and of the coinstake outputs
TxScripts ==
    {PayToPubKey(CPubKey("k1", TRUE, TRUE)), PayToPubKey(CPubKey("k1", FALSE, TRUE)),
     PayToPubKey(CPubKey("k2", TRUE, TRUE)), PayToPubKey(InvalidPubKey),
     PayToPubKeyHash(GetID(CPubKey("k1", TRUE, TRUE))),
     PayToPubKeyHash(GetID(CPubKey("k2", TRUE, TRUE))),
     TxScript("TX_SCRIPTHASH", "s1"),
     TxScript("TX_NONSTANDARD", "n1")}

\* ExtractDestination(scriptPubKey, address, &txType)
ExtractDestination(scriptPubKey) ==
    CASE scriptPubKey.type = "TX_PUBKEY" ->
            IF scriptPubKey.data.valid
            THEN [ret |-> TRUE, txType |-> "TX_PUBKEY",
                  address |-> [type |-> "CKeyID", id |-> GetID(scriptPubKey.data)]]
            ELSE [ret |-> FALSE, txType |-> "TX_PUBKEY", address |-> [type |-> "CNoDestination"]]
      [] scriptPubKey.type = "TX_PUBKEYHASH" ->
            [ret |-> TRUE, txType |-> "TX_PUBKEYHASH",
             address |-> [type |-> "CKeyID", id |-> scriptPubKey.data]]
      [] scriptPubKey.type = "TX_SCRIPTHASH" ->
            [ret |-> TRUE, txType |-> "TX_SCRIPTHASH",
             address |-> [type |-> "CScriptID", id |-> scriptPubKey.data]]
      [] OTHER ->
            [ret |-> FALSE, txType |-> scriptPubKey.type, address |-> [type |-> "CNoDestination"]]

\* mutant: a P2PK stake output paid back to the P2PKH of its key passes too
CheckBlockInputPubKeyMatchesOutputPubKey_EitherWay(block, view) ==
    IF view[block.prevoutStake] = Null THEN FALSE
    ELSE IF Len(block.coinstake.vout) < 2 THEN FALSE
    ELSE LET coinIn == view[block.prevoutStake]
             txout == block.coinstake.vout[2]
             input == ExtractDestination(coinIn.scriptPubKey)
             output == ExtractDestination(txout.scriptPubKey)
         IN  \/ coinIn.scriptPubKey = txout.scriptPubKey
             \/ /\ input.ret /\ output.ret
                /\ input.address.type = "CKeyID" /\ output.address.type = "CKeyID"
                /\ input.address.id = output.address.id

CheckBlockInputPubKeyMatchesOutputPubKey(block, view) ==
    IF view[block.prevoutStake] = Null
    THEN FALSE   \* "Could not fetch prevoutStake from UTXO set"
    ELSE IF Len(block.coinstake.vout) < 2
    THEN FALSE   \* "coinstake transaction does not have the minimum number of outputs"
    ELSE LET coinIn == view[block.prevoutStake]
             txout == block.coinstake.vout[2]
         IN  IF coinIn.scriptPubKey = txout.scriptPubKey THEN TRUE
             ELSE LET input == ExtractDestination(coinIn.scriptPubKey)
                  IN  IF ~input.ret THEN FALSE
                      ELSE IF input.txType # "TX_PUBKEYHASH" \/ input.address.type # "CKeyID" THEN FALSE
                      ELSE LET output == ExtractDestination(txout.scriptPubKey)
                           IN  IF ~output.ret THEN FALSE
                               ELSE IF output.txType # "TX_PUBKEY" \/ output.address.type # "CKeyID" THEN FALSE
                               ELSE IF input.address.id # output.address.id THEN FALSE
                               ELSE TRUE

\* a compact block signature: empty or not, and the key that each recovery
\* id recovers from it for the block hash ("none": the recovery fails)
RecIds == 0..3
BlockSig(empty, keys) == [empty |-> empty, keys |-> keys]
BlockSigs ==
    {BlockSig(TRUE, [r \in RecIds |-> "none"])}
    \cup {BlockSig(FALSE, keys) : keys \in [RecIds -> {"none", "k1", "k2"}]}

\* pubkey.RecoverLaxDER(hash, block.vchBlockSig, recid, compressed)
RecoverLaxDER(vchBlockSig, recid, compressed) ==
    IF vchBlockSig.empty \/ vchBlockSig.keys[recid] = "none"
    THEN [ret |-> FALSE, pubkey |-> InvalidPubKey]
    ELSE [ret |-> TRUE, pubkey |-> CPubKey(vchBlockSig.keys[recid], compressed = 1, TRUE)]

\* the body of the two loops for one (recid, compressed): true when it returns
RecoveredKeyMatches(coinPrev, vchBlockSig, recid, compressed) ==
    LET rec == RecoverLaxDER(vchBlockSig, recid, compressed)
        dest == ExtractDestination(coinPrev.scriptPubKey)
    IN  /\ rec.ret
        /\ dest.ret
        /\ dest.txType \in {"TX_PUBKEY", "TX_PUBKEYHASH"} /\ dest.address.type = "CKeyID"
        /\ GetID(rec.pubkey) = dest.address.id

\* for(recid = 0; recid <= 3; ++recid) for(compressed = 0; compressed < 2; ++compressed)
RECURSIVE RecoverLoop(_, _, _, _)
RecoverLoop(coinPrev, vchBlockSig, recid, compressed) ==
    IF recid > 3 THEN FALSE
    ELSE IF compressed >= 2 THEN RecoverLoop(coinPrev, vchBlockSig, recid + 1, 0)
    ELSE IF RecoveredKeyMatches(coinPrev, vchBlockSig, recid, compressed) THEN TRUE
    ELSE RecoverLoop(coinPrev, vchBlockSig, recid, compressed + 1)

\* mutant: only the compressed form of the recovered key is tried
CheckRecoveredPubKeyFromBlockSignature_CompressedOnly(pindexPrev, block, view) ==
    IF view[block.prevoutStake] = Null /\ spentCoins[block.prevoutStake] = Null
    THEN FALSE
    ELSE LET coinPrev == IF view[block.prevoutStake] # Null
                         THEN view[block.prevoutStake] ELSE spentCoins[block.prevoutStake]
         IN  IF block.vchBlockSig.empty THEN FALSE
             ELSE \E recid \in RecIds : RecoveredKeyMatches(coinPrev, block.vchBlockSig, recid, 1)

CheckRecoveredPubKeyFromBlockSignature(pindexPrev, block, view) ==
    IF view[block.prevoutStake] = Null /\ spentCoins[block.prevoutStake] = Null
    THEN FALSE   \* "Could not find %s and it was not at the tip"
    ELSE LET coinPrev == IF view[block.prevoutStake] # Null
                         THEN view[block.prevoutStake] ELSE spentCoins[block.prevoutStake]
         IN  IF block.vchBlockSig.empty
             THEN FALSE   \* "Signature is empty"
             ELSE RecoverLoop(coinPrev, block.vchBlockSig, 0, 0)

(***************************************************************************)
(* OwnerSpec: the stake output is confirmed and spent, and blocks that     *)
(* stake it are checked.                                                   *)
(***************************************************************************)
\* the outputs of the coinstake of the block: the empty first output alone,
\* or followed by an output of any script, or by that and a third one
CoinstakeVouts ==
    {<<CTxOut(0, << >>)>>}
    \cup {<<CTxOut(0, << >>), CTxOut(9, script)>> : script \in TxScripts}
    \cup {<<CTxOut(0, << >>), CTxOut(9, script), CTxOut(1, PayToPubKeyHash(GetID(CPubKey("k2", TRUE, TRUE))))>> :
            script \in TxScripts}

OwnerInit ==
    /\ op = "none" /\ args = Null /\ ret = FALSE /\ hashFn = << >>
    /\ hashProofOfStake = Zero256 /\ targetProofOfStake = Zero256
    /\ chain = <<Genesis>> /\ stakeCache = EmptyCache
    /\ coinsView = [p \in {P1} |-> Null]
    /\ spentCoins = [p \in {P1} |-> Null]
    /\ chainActive = << >> /\ scriptsMap = << >>
    /\ consensusParams = << >> /\ fMineBlocksOnDemand = FALSE

\* the stake output is confirmed with some script
ConfirmStakeOutput ==
    /\ NoCall
    /\ coinsView[P1] = Null
    /\ \E script \in TxScripts :
          coinsView' = [coinsView EXCEPT ![P1] = Coin(Amount(1), script, 0, FALSE)]
    /\ spentCoins' = [spentCoins EXCEPT ![P1] = Null]
    /\ UNCHANGED <<chain, stakeCache>>
    /\ UNCHANGED mposVars

\* the stake output is spent; GetSpentCoinFromMainChain finds it or not
SpendStakeOutput ==
    /\ NoCall
    /\ coinsView[P1] # Null
    /\ coinsView' = [coinsView EXCEPT ![P1] = Null]
    /\ \E found \in BOOLEAN :
          spentCoins' = [spentCoins EXCEPT ![P1] = IF found THEN coinsView[P1] ELSE Null]
    /\ UNCHANGED <<chain, stakeCache>>
    /\ UNCHANGED mposVars

CallCheckBlockInputPubKeyMatchesOutputPubKey ==
    \E vout \in CoinstakeVouts :
        LET block == [prevoutStake |-> P1, coinstake |-> [vout |-> vout]]
        IN  /\ op = "none"
            /\ op' = "CheckBlockInputPubKeyMatchesOutputPubKey"
            /\ args' = [block |-> block]
            /\ ret' = CheckBlockInputPubKeyMatchesOutputPubKey(block, coinsView)
            /\ UNCHANGED stakeVars
            /\ UNCHANGED mposVars

CallCheckRecoveredPubKeyFromBlockSignature ==
    \E vchBlockSig \in BlockSigs :
        LET block == [prevoutStake |-> P1, vchBlockSig |-> vchBlockSig]
        IN  /\ op = "none"
            /\ op' = "CheckRecoveredPubKeyFromBlockSignature"
            /\ args' = [block |-> block]
            /\ ret' = CheckRecoveredPubKeyFromBlockSignature(chain, block, coinsView)
            /\ UNCHANGED stakeVars
            /\ UNCHANGED mposVars

OwnerNext ==
    \/ ConfirmStakeOutput
    \/ SpendStakeOutput
    \/ CallCheckBlockInputPubKeyMatchesOutputPubKey
    \/ CallCheckRecoveredPubKeyFromBlockSignature
    \/ Return

OwnerSpec == OwnerInit /\ [][OwnerNext]_vars

(***************************************************************************)
(* Claims about the ownership checks (checked under OwnerSpec).            *)
(***************************************************************************)
MatchCalled == op = "CheckBlockInputPubKeyMatchesOutputPubKey"
\* the script of the stake output and of the second coinstake output
StakeInScript == coinsView[args.block.prevoutStake].scriptPubKey
StakeOutput2 == args.block.coinstake.vout[2].scriptPubKey
\* the key identity a script pays to, for the two forms that name one key
IsKeyScript(script) ==
    \/ script.type = "TX_PUBKEYHASH"
    \/ script.type = "TX_PUBKEY" /\ script.data.valid
OwnerOf(script) ==
    IF script.type = "TX_PUBKEY" THEN GetID(script.data) ELSE script.data

\* C16: with the stake output in the view and two coinstake outputs or
\* more, CheckBlockInputPubKeyMatchesOutputPubKey accepts if and only if
\* the second output's script is the stake output's script, or the stake
\* output is pay-to-pubkey-hash, the second output pay-to-pubkey, and both
\* name the same key identity; it rejects when the stake output is missing
\* or the coinstake has fewer than two outputs.
C16_SameScriptOrP2PKHToP2PK ==
    MatchCalled =>
        IF coinsView[args.block.prevoutStake] = Null \/ Len(args.block.coinstake.vout) < 2
        THEN ~ret
        ELSE ret <=>
             \/ StakeOutput2 = StakeInScript
             \/ /\ StakeInScript.type = "TX_PUBKEYHASH"
                /\ StakeOutput2.type = "TX_PUBKEY" /\ StakeOutput2.data.valid
                /\ GetID(StakeOutput2.data) = StakeInScript.data

\* a pay-to-pubkey-hash stake output paid back to the pay-to-pubkey script
\* of the same key is accepted
C16_Witness ==
    /\ MatchCalled /\ ret
    /\ coinsView[args.block.prevoutStake] # Null
    /\ StakeInScript.type = "TX_PUBKEYHASH"
    /\ StakeOutput2.type = "TX_PUBKEY"

RecoverCalled == op = "CheckRecoveredPubKeyFromBlockSignature"
\* the stake output: from the view, or else what the historical lookup finds
RecoverCoin ==
    IF coinsView[args.block.prevoutStake] # Null
    THEN coinsView[args.block.prevoutStake]
    ELSE spentCoins[args.block.prevoutStake]
\* the (recovery id, compression flag) combination recovers the owner's key
Recovers(recid, compressed) ==
    /\ args.block.vchBlockSig.keys[recid] # "none"
    /\ [key |-> args.block.vchBlockSig.keys[recid], compressed |-> compressed]
          = OwnerOf(RecoverCoin.scriptPubKey)

\* C17: CheckRecoveredPubKeyFromBlockSignature accepts if and only if the
\* stake output is found (in the view, or else by the historical lookup),
\* the signature is not empty, the output's script is pay-to-pubkey or
\* pay-to-pubkey-hash, and one of the 4 x 2 combinations of recovery id and
\* compression flag recovers a key whose identity is the output's owner.
C17_AcceptsIffSomeRecoveryMatches ==
    RecoverCalled =>
        (ret <=>
            /\ RecoverCoin # Null
            /\ ~args.block.vchBlockSig.empty
            /\ IsKeyScript(RecoverCoin.scriptPubKey)
            /\ \E recid \in 0..3, compressed \in BOOLEAN : Recovers(recid, compressed))

\* a spent stake output found by the historical lookup, owned by an
\* uncompressed key that only the last recovery id recovers
C17_Witness ==
    /\ RecoverCalled /\ ret
    /\ coinsView[args.block.prevoutStake] = Null
    /\ Recovers(3, FALSE)
    /\ \A recid \in 0..2, compressed \in BOOLEAN : ~Recovers(recid, compressed)

(***************************************************************************)
(* Further claims about CheckProofOfStake (checked under PoSSpec).         *)
(***************************************************************************)
\* every step before the kernel check passes
PoSReachesKernel ==
    /\ PoSCalled /\ args.tx.isCoinStake
    /\ PoSCoin # Null
    /\ (IsSuperStaker(PoSCoin.scriptPubKey) \/ PoSDepth >= COINBASE_MATURITY)
    /\ GetAncestor(chain, PoSCoin.nHeight) # Null
    /\ args.tx.validSignature

\* C18 as stated: a rejection by the kernel check records no misbehaviour
\* penalty and differs from the penalty recorded for a missing or immature
\* stake output and a failed signature check; a transaction that is not a
\* coinstake is rejected with no penalty recorded.
C18_AsStated ==
    PoSCalled =>
        /\ (PoSReachesKernel /\ ~ret.ret) => ret.nDoS = 0
        /\ (args.tx.isCoinStake /\ ~PoSReachesKernel) => (~ret.ret /\ ret.nDoS > 0)
        /\ ~args.tx.isCoinStake => (~ret.ret /\ ret.nDoS = 0)

\* C18: a rejection by the kernel check is recorded with the DoS score 1,
\* the lowest score and not zero; a missing stake output, an immature one,
\* an origin block that is not found and a failed signature check are
\* recorded with the score 100; a transaction that is not a coinstake is
\* rejected with no score recorded.
C18_KernelRejectionScoresOne ==
    PoSCalled =>
        /\ (PoSReachesKernel /\ ~ret.ret) => ret.nDoS = 1
        /\ (args.tx.isCoinStake /\ ~PoSReachesKernel) => (~ret.ret /\ ret.nDoS = 100)
        /\ ~args.tx.isCoinStake => (~ret.ret /\ ret.nDoS = 0)
        /\ ret.ret => ret.nDoS = 0

\* the kernel check rejects a coinstake that passed every earlier step
C18_Witness ==
    /\ PoSReachesKernel
    /\ ~ret.ret
    /\ ret.nDoS = 1

FreshEntry(prevout) ==
    /\ prevout \in DOMAIN stakeCache
    /\ coinsView[prevout] # Null
    /\ GetAncestor(chain, coinsView[prevout].nHeight) # Null
    /\ stakeCache[prevout].blockFromTime = GetAncestor(chain, coinsView[prevout].nHeight).nTime
    /\ stakeCache[prevout].amount = coinsView[prevout].nValue

\* C20: when the entry CacheKernel stored for the outpoint still agrees
\* with the origin block and the value of the output, CheckKernel with the
\* cache returns what CheckKernel with an empty cache returns.
C20_FreshCacheIsTransparent ==
    (op = "CheckKernel" /\ FreshEntry(args.prevout)) =>
        ret = CheckKernel(chain, args.nBits, args.nTimeBlock, args.prevout, coinsView, EmptyCache)

\* a call served through an entry that agrees with the chain accepts
C20_Witness ==
    /\ op = "CheckKernel"
    /\ FreshEntry(args.prevout)
    /\ ret

(***************************************************************************)
(* A failing CreateMPoSOutputs (checked under MPoSSpec).                   *)
(***************************************************************************)
CreateCalled == op = "CreateMPoSOutputs"
\* the height of the i-th recipient (i = 0..N-2)
RecipientHeight(i) == args.nHeight - COINBASE_MATURITY - i
\* AddMPoSScript can resolve the height: the block is there and either the
\* cache the call started with holds its script, or the stake index has a
\* record and the block is proof-of-stake or blocks are mined on demand
Resolvable(h) ==
    /\ ChainAt(h) # Null
    /\ \/ h \in DOMAIN args.scriptsMap /\ args.scriptsMap[h].hash = ChainAt(h).hash
       \/ /\ ChainAt(h).stakeAddress # NoStakeIndex
          /\ ChainAt(h).fProofOfStake \/ fMineBlocksOnDemand
\* the cache holds nothing at the height that the call wrote
NotWritten(h) ==
    h \in DOMAIN scriptsMap => (h \in DOMAIN args.scriptsMap /\ scriptsMap[h] = args.scriptsMap[h])

\* C21: CreateMPoSOutputs fails exactly when one of the N-1 recipient
\* heights cannot be resolved; it then returns false and leaves the outputs
\* of the transaction as they were, the recipients before the first height
\* that fails have been resolved (and written to the cache when their block
\* is proof-of-stake) and no height after it has been.
C21_FailureLeavesOutputsAndStops ==
    CreateCalled =>
        LET N == consensusParams.nMPoSRewardRecipients
            failing == {i \in 0..N - 2 : ~Resolvable(RecipientHeight(i))}
        IN  /\ ret.ret <=> failing = {}
            /\ ~ret.ret =>
                  /\ ret.txNew = args.txNew
                  /\ \A i \in 0..N - 2 :
                        IF \E k \in failing : k < i
                        THEN NotWritten(RecipientHeight(i))
                        ELSE (i \notin failing /\ ChainAt(RecipientHeight(i)).fProofOfStake)
                             => /\ RecipientHeight(i) \in DOMAIN scriptsMap
                                /\ scriptsMap[RecipientHeight(i)].hash = ChainAt(RecipientHeight(i)).hash

\* a call fails at its second height after resolving the first, which it
\* wrote to the cache; the transaction had outputs and keeps just those
C21_Witness ==
    /\ CreateCalled /\ ~ret.ret
    /\ consensusParams.nMPoSRewardRecipients = 3
    /\ Len(args.txNew) > 0 /\ ret.txNew = args.txNew
    /\ Resolvable(RecipientHeight(0)) /\ ~Resolvable(RecipientHeight(1))
    /\ RecipientHeight(0) \notin DOMAIN args.scriptsMap
    /\ RecipientHeight(0) \in DOMAIN scriptsMap

\* a call fails at its first height; the second could have been resolved
\* and was not
C21_StopsAtFirst ==
    /\ CreateCalled /\ ~ret.ret
    /\ consensusParams.nMPoSRewardRecipients = 3
    /\ ~Resolvable(RecipientHeight(0)) /\ Resolvable(RecipientHeight(1))
    /\ ChainAt(RecipientHeight(1)).fProofOfStake
    /\ RecipientHeight(1) \notin DOMAIN scriptsMap
====
